---- MODULE Spec2Model ----
(***************************************************************************)
(* Model of tensorflow_datasets/text/yelp_polarity.py: the builder         *)
(* YelpPolarityReviews.  A file is a flat sequence of one-character        *)
(* strings; `for line in f` reads it line by line; _generate_examples is   *)
(* a Python generator whose frame (position in the file, the GFile handle  *)
(* held by the `with` block) is part of the state.                         *)
(***************************************************************************)
EXTENDS Integers, Sequences, FiniteSets, TLC

VARIABLES fs, pc, active, gens, splits, built, corpus, partitions

vars == <<fs, pc, active, gens, splits, built, corpus, partitions>>

---------------------------------------------------------------------------
(* Bounds of the explored inputs *)

\* longest text body of an enumerated well-formed line
MaxText == 2
\* longest enumerated arbitrary (possibly malformed) line body
MaxRaw == 2
\* most lines in an enumerated multi-line file
MaxLines == 2

---------------------------------------------------------------------------
(* Characters *)

Q == "\""
Comma == ","
NL == "\n"

\* what Python's str.strip() removes when called without argument
Whitespace == {" ", "\t", "\n", "\r", "\f"}

Min(a, b) == IF a < b THEN a ELSE b
Max(a, b) == IF a > b THEN a ELSE b

---------------------------------------------------------------------------
(* The line-parsing rule of _generate_examples *)

\* Python s[lo:hi] for lo >= 0 and hi < 0 (hi counts from the end); both
\* ends are clamped to the string, an empty range gives the empty string
PySlice(s, lo, hi) ==
    LET n     == Len(s)
        start == Min(lo, n)
        stop  == Max(n + hi, 0)
    IN  IF stop <= start THEN <<>>
        ELSE [i \in 1..(stop - start) |-> s[start + i]]

RECURSIVE LStrip(_)
LStrip(s) ==
    IF s = <<>> THEN <<>>
    ELSE IF Head(s) \in Whitespace THEN LStrip(Tail(s)) ELSE s

RECURSIVE RStrip(_)
RStrip(s) ==
    IF s = <<>> THEN <<>>
    ELSE IF s[Len(s)] \in Whitespace THEN RStrip(SubSeq(s, 1, Len(s) - 1)) ELSE s

\* str.strip()
Strip(s) == RStrip(LStrip(s))

\* "text": line[5:-2].strip()
TextOfMutFrom4(line) == Strip(PySlice(line, 4, -2))
TextOfMutToMinus1(line) == Strip(PySlice(line, 5, -1))
TextOf(line) == Strip(PySlice(line, 5, -2))

\* line[1] raises IndexError when the line has fewer than 2 characters
LabelRaisesMutValidate(line) == Len(line) < 7
LabelRaises(line) == Len(line) < 2

\* "label": line[1]  (Python offset 1 is position 2 here)
LabelOfMutOffset0(line) == line[1]
LabelOf(line) == line[2]

\* the dict yielded for one line
Example(line) == [text |-> TextOf(line), label |-> LabelOf(line)]

---------------------------------------------------------------------------
(* Reading a file line by line: `for line in f` *)

\* the next line of content after pos consumed characters: up to and
\* including the next newline, or the rest of the file when there is none
ReadLineMutWholeFile(content, pos) == SubSeq(content, pos + 1, Len(content))
ReadLine(content, pos) ==
    LET nls == {j \in (pos + 1)..Len(content) : content[j] = NL}
        end == IF nls = {} THEN Len(content)
               ELSE CHOOSE j \in nls : \A k \in nls : j <= k
    IN  SubSeq(content, pos + 1, end)

\* where a new GFile starts reading
OpenPosMutShared(file) ==
    LET ps == {gens[g].pos : g \in {h \in DOMAIN gens : gens[h].file = file}}
    IN  CHOOSE p \in ps \cup {0} : \A q \in ps : q <= p
OpenPos(file) == 0

---------------------------------------------------------------------------
(* _split_generators: paths and the declared splits *)

ExtractDir == "extracted"
PathJoin(a, b, c) == <<a, b, c>>

TrainFile == PathJoin(ExtractDir, "yelp_review_polarity_csv", "train.csv")
TestFile == PathJoin(ExtractDir, "yelp_review_polarity_csv", "test.csv")

NumShards == 10

SplitListMutTestOnTrain ==
    << [name |-> "train", num_shards |-> NumShards, gen_kwargs |-> [file |-> TrainFile]],
       [name |-> "test", num_shards |-> NumShards, gen_kwargs |-> [file |-> TrainFile]] >>
SplitList ==
    << [name |-> "train", num_shards |-> NumShards, gen_kwargs |-> [file |-> TrainFile]],
       [name |-> "test", num_shards |-> NumShards, gen_kwargs |-> [file |-> TestFile]] >>

\* the file _vocab_text_gen is called on
VocabFileMutTest == TestFile
VocabFile == TrainFile

\* ClassLabel(names=["1", "2"])
ClassNames == <<"1", "2">>

GenIds == {"vocab", "train", "test"}

\* a generator object that does not exist yet
NoGen == [file |-> <<>>, st |-> "none", pos |-> 0, handle |-> "none",
          opens |-> 0, out |-> <<>>]

\* calling _generate_examples(file) only creates the generator object; no
\* line of its body has run, the file is not open
NewGen(file) == [file |-> file, st |-> "created", pos |-> 0, handle |-> "none",
                 opens |-> 0, out |-> <<>>]

---------------------------------------------------------------------------
(* Input files *)

Digits == {"1", "2", "7"}
TextChars == {"a", " ", Q, Comma}
RawChars == {"a", " ", Q, "1"}

\* all sequences over S of length at most n
UpTo(S, n) == UNION {[1..k -> S] : k \in 0..n}

\* a line "L","T" without its terminator
Quoted(L, T) == <<Q, L, Q, Comma, Q>> \o T \o <<Q>>

GreatService ==
    <<"G", "r", "e", "a", "t", " ", "s", "e", "r", "v", "i", "c", "e", ",",
      " ", "f", "a", "s", "t", "!">>
TerribleFood ==
    <<"T", "e", "r", "r", "i", "b", "l", "e", " ", "f", "o", "o", "d", ".">>

\* the two scenario lines, ending at the closing quote of the text field
ScenarioLine2 == Quoted("2", GreatService)
ScenarioLine1 == Quoted("1", TerribleFood)

\* "1","" and a newline: 7 characters
MinimalLine == Quoted("1", <<>>) \o <<NL>>
\* the same with a comma after the empty text: 8 characters
MinimalLineComma == Quoted("1", <<>>) \o <<Comma, NL>>

\* files of one line: every well-formed line and every short raw line, with
\* and without the line terminator (the last line of a file may lack it)
SingleLineFiles ==
    LET bodies == {Quoted(L, T) : L \in Digits, T \in UpTo(TextChars, MaxText)}
                    \cup UpTo(RawChars, MaxRaw)
                    \cup {ScenarioLine1, ScenarioLine2}
    IN  bodies \cup {b \o <<NL>> : b \in bodies} \cup {MinimalLineComma}

RECURSIVE Concat(_)
Concat(ls) == IF ls = <<>> THEN <<>> ELSE Head(ls) \o Concat(Tail(ls))

TrainBodies == {Quoted("1", <<"a">>), Quoted("2", <<" ", "a">>), <<>>, <<"7">>}
TestBodies == {Quoted("2", <<"a", " ">>), <<>>}

\* files of several lines, each line terminated
Terminated(bodies, n) ==
    {Concat([i \in 1..Len(bs) |-> bs[i] \o <<NL>>]) : bs \in UpTo(bodies, n)}

\* the same files, and those whose last line lacks its terminator
MultiLineFiles(bodies, n) ==
    Terminated(bodies, n)
      \cup {SubSeq(c, 1, Len(c) - 1) : c \in Terminated(bodies, n) \ {<<>>}}

\* the shape of the test's fake data: 5 train examples, 4 test examples
FixtureTrain ==
    Concat(<<Quoted("1", <<"a">>) \o <<NL>>, Quoted("2", <<"a", " ">>) \o <<NL>>,
             Quoted("2", <<>>) \o <<NL>>, Quoted("1", <<Q>>) \o <<NL>>,
             Quoted("1", <<"a", Comma>>) \o <<NL>> >>)
FixtureTest ==
    Concat(<<Quoted("2", <<"a">>) \o <<NL>>, Quoted("1", <<" ">>) \o <<NL>>,
             Quoted("1", <<"a">>) \o <<NL>>, Quoted("2", <<"a", "a">>) \o <<NL>> >>)

\* <<contents of train.csv, contents of test.csv>>
Inputs ==
    (MultiLineFiles(TrainBodies, MaxLines) \X Terminated(TestBodies, MaxLines))
      \cup (SingleLineFiles \X {Quoted("2", <<"a">>) \o <<NL>>})
      \cup {<<FixtureTrain, FixtureTest>>}

---------------------------------------------------------------------------
(* State *)

Init ==
    /\ fs \in {[p \in {TrainFile, TestFile} |-> IF p = TrainFile THEN in[1] ELSE in[2]]
                 : in \in Inputs}
    /\ pc = "start"
    /\ active = "none"
    /\ gens = [g \in GenIds |-> NoGen]
    /\ splits = <<>>
    /\ built = 0
    /\ corpus = <<>>
    /\ partitions = [n \in {"train", "test"} |-> <<>>]

---------------------------------------------------------------------------
(* The generator _generate_examples(file) *)

\* what the `with` block leaves of the handle when the generator frame is
\* left by how: "exhausted" (end of file), "raised" (IndexError), "closed"
\* (GeneratorExit thrown at the yield)
HandleAfterMutNoWith(how) == IF how = "exhausted" THEN "closed" ELSE "open"
HandleAfter(how) == "closed"

\* the first resumption runs `with tf.io.gfile.GFile(file) as f`
Started(g) ==
    IF g.st = "created"
    THEN [g EXCEPT !.handle = "open", !.opens = @ + 1, !.pos = OpenPos(g.file)]
    ELSE g

Resumable(g) == g.st \in {"created", "suspended"}

\* the consumer of the active generator receives one example
Deliver(rec) ==
    IF active = "vocab"
    THEN /\ corpus' = Append(corpus, rec.text)
         /\ UNCHANGED partitions
    ELSE /\ partitions' = [partitions EXCEPT ![active] = Append(@, rec)]
         /\ UNCHANGED corpus

\* next(gen): a line is read and its example yielded
GenYield ==
    /\ active # "none"
    /\ Resumable(gens[active])
    /\ LET s    == Started(gens[active])
           line == ReadLine(fs[s.file], s.pos)
       IN  /\ s.pos < Len(fs[s.file])
           /\ ~LabelRaises(line)
           /\ gens' = [gens EXCEPT ![active] =
                         [s EXCEPT !.st = "suspended", !.pos = @ + Len(line),
                                   !.out = Append(@, Example(line))]]
           /\ Deliver(Example(line))
    /\ UNCHANGED <<fs, pc, active, splits, built>>

\* next(gen): the file is at its end, the loop and the `with` block end
GenStop ==
    /\ active # "none"
    /\ Resumable(gens[active])
    /\ LET s == Started(gens[active])
       IN  /\ s.pos = Len(fs[s.file])
           /\ gens' = [gens EXCEPT ![active] =
                         [s EXCEPT !.st = "exhausted",
                                   !.handle = HandleAfter("exhausted")]]
    /\ UNCHANGED <<fs, pc, active, splits, built, corpus, partitions>>

\* next(gen): a line is read and line[1] raises IndexError
GenRaise ==
    /\ active # "none"
    /\ Resumable(gens[active])
    /\ LET s    == Started(gens[active])
           line == ReadLine(fs[s.file], s.pos)
       IN  /\ s.pos < Len(fs[s.file])
           /\ LabelRaises(line)
           /\ gens' = [gens EXCEPT ![active] =
                         [s EXCEPT !.st = "raised", !.pos = @ + Len(line),
                                   !.handle = HandleAfter("raised")]]
    /\ UNCHANGED <<fs, pc, active, splits, built, corpus, partitions>>

\* the consumer stops pulling: gen.close(), also run when the generator
\* object is dropped; a generator that never started has opened nothing
GenClose ==
    /\ active # "none"
    /\ Resumable(gens[active])
    /\ gens' = [gens EXCEPT ![active] =
                  [@ EXCEPT !.st = "closed",
                            !.handle = IF @ = "open" THEN HandleAfter("closed") ELSE @]]
    /\ UNCHANGED <<fs, pc, active, splits, built, corpus, partitions>>

---------------------------------------------------------------------------
(* _split_generators and the materialization of its splits *)

\* download_and_extract, the two paths, and the corpus generator handed to
\* maybe_build_from_corpus
SplitGeneratorsBegin ==
    /\ pc = "start"
    /\ pc' = "vocab"
    /\ gens' = [gens EXCEPT !["vocab"] = NewGen(VocabFile)]
    /\ active' = "vocab"
    /\ UNCHANGED <<fs, splits, built, corpus, partitions>>

\* maybe_build_from_corpus has returned; the split generators are returned
SplitGeneratorsReturn ==
    /\ pc = "vocab"
    /\ gens["vocab"].st \in {"exhausted", "closed"}
    /\ pc' = "build"
    /\ active' = "none"
    /\ splits' = SplitList
    /\ UNCHANGED <<fs, gens, built, corpus, partitions>>

\* an IndexError of the generator leaves the call that consumes it
Propagate ==
    /\ pc \in {"vocab", "build"}
    /\ active # "none"
    /\ gens[active].st = "raised"
    /\ pc' = "failed"
    /\ active' = "none"
    /\ UNCHANGED <<fs, gens, splits, built, corpus, partitions>>

\* _generate_examples(**gen_kwargs) of the next split
StartSplit ==
    /\ pc = "build"
    /\ active = "none"
    /\ built < Len(splits)
    /\ LET sg == splits[built + 1]
       IN  /\ gens' = [gens EXCEPT ![sg.name] = NewGen(sg.gen_kwargs.file)]
           /\ active' = sg.name
    /\ UNCHANGED <<fs, pc, splits, built, corpus, partitions>>

\* the split's generator has ended
FinishSplit ==
    /\ pc = "build"
    /\ active # "none"
    /\ gens[active].st \in {"exhausted", "closed"}
    /\ active' = "none"
    /\ built' = built + 1
    /\ UNCHANGED <<fs, pc, gens, splits, corpus, partitions>>

\* every split is written
BuildDone ==
    /\ pc = "build"
    /\ active = "none"
    /\ built = Len(splits)
    /\ pc' = "done"
    /\ UNCHANGED <<fs, active, gens, splits, built, corpus, partitions>>

Next ==
    \/ SplitGeneratorsBegin
    \/ GenYield
    \/ GenStop
    \/ GenRaise
    \/ GenClose
    \/ SplitGeneratorsReturn
    \/ Propagate
    \/ StartSplit
    \/ FinishSplit
    \/ BuildDone

Spec == Init /\ [][Next]_vars

---------------------------------------------------------------------------
(* Vocabulary of the properties *)

\* the lines of a file, each with its terminator, the last maybe without
RECURSIVE SplitLines(_, _)
SplitLines(content, cur) ==
    IF content = <<>> THEN (IF cur = <<>> THEN <<>> ELSE <<cur>>)
    ELSE IF Head(content) = NL
         THEN <<Append(cur, NL)>> \o SplitLines(Tail(content), <<>>)
         ELSE SplitLines(Tail(content), Append(cur, Head(content)))

LinesIn(content) == SplitLines(content, <<>>)
LinesOf(g) == LinesIn(fs[gens[g].file])
Made == {g \in GenIds : gens[g].st # "none"}

\* s without its leading and trailing whitespace
Trimmed(s) ==
    LET keep == {i \in 1..Len(s) : s[i] \notin Whitespace}
    IN  IF keep = {} THEN <<>>
        ELSE SubSeq(s, CHOOSE i \in keep : \A k \in keep : i <= k,
                       CHOOSE i \in keep : \A k \in keep : k <= i)

\* the characters of a line from offset 5 up to, not including, the last two
Offsets5ToLast2(line) == [k \in 1..Max(Len(line) - 7, 0) |-> line[5 + k]]

HasQuoteCommaQuote(t) ==
    \E i \in 1..(Len(t) - 2) : t[i] = Q /\ t[i + 1] = Comma /\ t[i + 2] = Q

DigitChars == {"0", "1", "2", "3", "4", "5", "6", "7", "8", "9"}

\* the text body of a line "L","T" and newline
BodyOf(line) == SubSeq(line, 6, Len(line) - 2)

\* the line is "L","T" and a newline, L one digit, T free of "," and newline
WellFormed(line) ==
    /\ Len(line) >= 7
    /\ line[1] = Q /\ line[2] \in DigitChars /\ line[3] = Q
    /\ line[4] = Comma /\ line[5] = Q
    /\ line[Len(line) - 1] = Q /\ line[Len(line)] = NL
    /\ ~HasQuoteCommaQuote(BodyOf(line))
    /\ \A i \in 1..Len(BodyOf(line)) : BodyOf(line)[i] # NL

TerminalStates == {"exhausted", "raised", "closed"}

---------------------------------------------------------------------------
(* Properties *)

\* C1: every well-formed line "L","T" with its newline (L one digit, T
\* without "," and without newline) yields exactly the record
\* {text: T without leading/trailing whitespace, label: L}
C1_WellFormedLineRecord ==
    \A g \in Made : \A i \in 1..Len(gens[g].out) :
        LET line == LinesOf(g)[i]
        IN  WellFormed(line) =>
              gens[g].out[i] = [text |-> Trimmed(BodyOf(line)), label |-> line[2]]

\* C1 witness: a record was yielded for a well-formed line whose text body
\* has surrounding whitespace around a kept character
C1_Witness ==
    \E g \in Made : \E i \in 1..Len(gens[g].out) :
        LET line == LinesOf(g)[i]
        IN  /\ WellFormed(line)
            /\ Trimmed(BodyOf(line)) # BodyOf(line)
            /\ Trimmed(BodyOf(line)) # <<>>
            /\ gens[g].out[i].text = Trimmed(BodyOf(line))

\* C2 as claimed: every yielded record's label is one of the declared class
\* names "1" and "2", whatever the input file
C2_LabelAlwaysDeclared ==
    \A g \in Made : \A i \in 1..Len(gens[g].out) :
        gens[g].out[i].label \in {ClassNames[k] : k \in 1..Len(ClassNames)}

\* C2 amended: the label of every yielded record is the character at offset
\* 1 of its line, unvalidated; it is a declared class name when, and only
\* when, that character is "1" or "2"
C2_LabelIsOffset1 ==
    \A g \in Made : \A i \in 1..Len(gens[g].out) :
        LET line == LinesOf(g)[i]
            names == {ClassNames[k] : k \in 1..Len(ClassNames)}
        IN  /\ gens[g].out[i].label = line[2]
            /\ (line[2] \in {"1", "2"}) <=> (gens[g].out[i].label \in names)

\* C2 witness: one run yielded a record with a declared label and a record
\* whose label is not a declared class name
C2_Witness ==
    \E g \in Made : \E i, j \in 1..Len(gens[g].out) :
        /\ gens[g].out[i].label \in {"1", "2"}
        /\ gens[g].out[j].label \notin {"1", "2"}

\* C3 as claimed: a run of _generate_examples that has ended by itself has
\* yielded as many records as the file has lines
C3_OneRecordPerLine ==
    \A g \in Made :
        gens[g].st \in {"exhausted", "raised"} => Len(gens[g].out) = Len(LinesOf(g))

\* C3 amended: records are yielded one per line, in file order, the i-th
\* from the i-th line only, up to the first line of fewer than 2 characters;
\* without such a line the run ends after as many records as the file has
\* lines (5 and 4 for the test's files), at such a line it raises and
\* yields nothing more
C3_OneRecordPerLineUntilShort ==
    \A g \in Made :
        LET lines == LinesOf(g)
            out   == gens[g].out
        IN  /\ Len(out) <= Len(lines)
            /\ \A i \in 1..Len(out) :
                   /\ Len(lines[i]) >= 2
                   /\ out[i] = [text |-> Trimmed(Offsets5ToLast2(lines[i])),
                                label |-> lines[i][2]]
            /\ gens[g].st = "exhausted" => Len(out) = Len(lines)
            /\ gens[g].st = "raised" =>
                   /\ Len(out) < Len(lines)
                   /\ Len(lines[Len(out) + 1]) < 2
            /\ (gens[g].st = "exhausted" /\ fs[gens[g].file] = FixtureTrain)
                   => Len(out) = 5
            /\ (gens[g].st = "exhausted" /\ fs[gens[g].file] = FixtureTest)
                   => Len(out) = 4

\* C3 witness: the build of the 5-line train file and the 4-line test file
\* is done, with 5 and 4 records
C3_Witness ==
    /\ pc = "done"
    /\ fs[TrainFile] = FixtureTrain /\ fs[TestFile] = FixtureTest
    /\ gens["train"].st = "exhausted" /\ gens["test"].st = "exhausted"
    /\ Len(partitions["train"]) = 5 /\ Len(partitions["test"]) = 4

\* C4 as claimed: no line, whatever its length or content, makes
\* _generate_examples fail
C4_NoLineFails ==
    \A g \in Made : gens[g].st # "raised"

\* C4 amended: every line of at least 2 characters, well-formed or not, is
\* accepted and yields the record computed by the fixed offsets; only a line
\* of fewer than 2 characters fails, with line[1] raising IndexError
C4_OnlyShortLinesFail ==
    \A g \in Made :
        LET lines == LinesOf(g)
            out   == gens[g].out
        IN  /\ \A i \in 1..Len(out) :
                   /\ out[i].label = lines[i][2]
                   /\ out[i].text = Trimmed(Offsets5ToLast2(lines[i]))
            /\ gens[g].st = "raised" => Len(lines[Len(out) + 1]) < 2
            /\ gens[g].st \in {"suspended", "exhausted", "closed"} =>
                   \A i \in 1..Len(out) : Len(lines[i]) >= 2
            /\ gens[g].st = "exhausted" =>
                   \A i \in 1..Len(lines) : Len(lines[i]) >= 2

\* C4 witness: a line that is not well-formed and shorter than 7 characters
\* was turned into a record
C4_Witness ==
    \E g \in Made : \E i \in 1..Len(gens[g].out) :
        /\ ~WellFormed(LinesOf(g)[i])
        /\ Len(LinesOf(g)[i]) < 7
        /\ gens[g].out[i].text = <<>>

\* C5: the 7-character line "1","" with its newline does not raise and
\* yields {text: "", label: "1"}
C5_MinimalLine ==
    \A g \in Made :
        LET lines == LinesOf(g)
            out   == gens[g].out
        IN  /\ Len(MinimalLine) = 7
            /\ \A i \in 1..Len(out) :
                   lines[i] = MinimalLine => out[i] = [text |-> <<>>, label |-> "1"]
            /\ gens[g].st = "raised" => lines[Len(out) + 1] # MinimalLine

\* C5 witness: the 7-character line was read and its record yielded
C5_Witness ==
    \E g \in Made : \E i \in 1..Len(gens[g].out) :
        /\ LinesOf(g)[i] = MinimalLine
        /\ gens[g].out[i].label = "1"

\* C6 as claimed: the scenario lines, ending at the closing quote of the
\* text field, yield the full text body and the label
C6_ScenarioLines ==
    \A g \in Made : \A i \in 1..Len(gens[g].out) :
        LET line == LinesOf(g)[i]
        IN  /\ line = ScenarioLine2 =>
                  gens[g].out[i] = [text |-> GreatService, label |-> "2"]
            /\ line = ScenarioLine1 =>
                  gens[g].out[i] = [text |-> TerribleFood, label |-> "1"]

\* C7: the declared splits are exactly train and test, in that order, bound
\* to yelp_review_polarity_csv/train.csv and .../test.csv of the extracted
\* archive, and the records of a partition come from its own file only
C7_SplitsAndPartitions ==
    /\ splits # <<>> =>
          /\ Len(splits) = 2
          /\ splits[1].name = "train"
          /\ splits[1].gen_kwargs.file
                = <<ExtractDir, "yelp_review_polarity_csv", "train.csv">>
          /\ splits[2].name = "test"
          /\ splits[2].gen_kwargs.file
                = <<ExtractDir, "yelp_review_polarity_csv", "test.csv">>
    /\ pc \in {"build", "done"} => splits # <<>>
    /\ \A n \in {"train", "test"} :
          LET path  == <<ExtractDir, "yelp_review_polarity_csv",
                         IF n = "train" THEN "train.csv" ELSE "test.csv">>
              lines == LinesIn(fs[path])
          IN  /\ gens[n].st # "none" => gens[n].file = path
              /\ Len(partitions[n]) <= Len(lines)
              /\ \A i \in 1..Len(partitions[n]) :
                     partitions[n][i] = [text |-> Trimmed(Offsets5ToLast2(lines[i])),
                                         label |-> lines[i][2]]

\* C7 witness: both partitions are written, from files with different
\* contents, and hold different records
C7_Witness ==
    /\ pc = "done"
    /\ partitions["train"] # <<>> /\ partitions["test"] # <<>>
    /\ partitions["train"] # partitions["test"]
    /\ gens["train"].st = "exhausted" /\ gens["test"].st = "exhausted"

\* C8: two independent runs of _generate_examples over the same unchanged
\* file, each run to its own end, yield the same sequence of records
C8_SameFileSameRecords ==
    \A g, h \in Made :
        (/\ gens[g].file = gens[h].file
         /\ gens[g].st \in {"exhausted", "raised"}
         /\ gens[h].st \in {"exhausted", "raised"})
            => gens[g].out = gens[h].out

\* C8 witness: the corpus run and the train run both read train.csv to its
\* end and yielded at least two records
C8_Witness ==
    /\ gens["vocab"].st = "exhausted" /\ gens["train"].st = "exhausted"
    /\ gens["vocab"].file = gens["train"].file
    /\ Len(gens["train"].out) >= 2

\* C9: a run opens the file at most once, reads it line after line, and
\* holds no open handle once it has ended, by end of file, by an error, or
\* by the consumer closing it before the end of the file
C9_HandleReleased ==
    /\ \A g \in GenIds :
          /\ gens[g].opens <= 1
          /\ gens[g].st \in TerminalStates => gens[g].handle # "open"
          /\ gens[g].handle = "open" => gens[g].st = "suspended"
          /\ gens[g].st = "suspended" => gens[g].handle = "open" /\ gens[g].opens = 1
          /\ gens[g].st \in {"none", "created"} =>
                 gens[g].handle = "none" /\ gens[g].opens = 0
          /\ gens[g].st # "none" =>
                 \E k \in 0..Len(LinesOf(g)) :
                     gens[g].pos = Len(Concat(SubSeq(LinesOf(g), 1, k)))
    /\ pc \in {"done", "failed"} => \A g \in GenIds : gens[g].handle # "open"

\* C9 witness: the consumer closed a run that had opened the file and not
\* reached its end, and the handle is closed
C9_Witness ==
    \E g \in Made :
        /\ gens[g].st = "closed"
        /\ gens[g].opens = 1
        /\ gens[g].handle = "closed"
        /\ Len(gens[g].out) < Len(LinesOf(g))

\* C10: the corpus generator is handed over, and consumed, before the split
\* generators are returned and before any split is read; it runs over
\* train.csv only and yields the text of each train record, in file order
C10_CorpusBeforeSplits ==
    LET trainLines == LinesIn(fs[<<ExtractDir, "yelp_review_polarity_csv", "train.csv">>])
    IN  /\ splits # <<>> => gens["vocab"].st \in TerminalStates
        /\ pc \in {"start", "vocab"} =>
              /\ splits = <<>>
              /\ gens["train"].st = "none" /\ gens["test"].st = "none"
              /\ partitions["train"] = <<>> /\ partitions["test"] = <<>>
        /\ gens["vocab"].st # "none" =>
              gens["vocab"].file = <<ExtractDir, "yelp_review_polarity_csv", "train.csv">>
        /\ Len(corpus) = Len(gens["vocab"].out)
        /\ Len(corpus) <= Len(trainLines)
        /\ \A i \in 1..Len(corpus) :
              /\ corpus[i] = Trimmed(Offsets5ToLast2(trainLines[i]))
              /\ corpus[i] = gens["vocab"].out[i].text
        /\ \A i \in 1..Min(Len(corpus), Len(partitions["train"])) :
              corpus[i] = partitions["train"][i].text
        /\ gens["vocab"].st = "exhausted" => Len(corpus) = Len(trainLines)

\* C10 witness: the whole corpus of a train file of several lines was
\* consumed, then the splits were returned and the train split was read
C10_Witness ==
    /\ gens["vocab"].st = "exhausted"
    /\ Len(corpus) >= 2
    /\ splits # <<>>
    /\ Len(partitions["train"]) = Len(corpus)
    /\ fs[TrainFile] # fs[TestFile]

====
